---- MODULE Spec2Model ----
(***************************************************************************)
(* Snow-event identification and longitudinal tracking                     *)
(* (src/snow_events.py and its two callers).                               *)
(*                                                                         *)
(* Units.  Snow amounts are integers in thousandths of an inch (0.5 in is  *)
(* 500).  Calendar dates are day numbers of January (Jan 13 is 13).        *)
(* Instants are whole hours since Jan 13 00:00, so the calendar date of    *)
(* instant t is 13 + t \div 24.                                            *)
(* An event_id minted by generate_event_id is the hashed key itself,       *)
(* <<location_id, start_date, end_date>>: the md5 prefix is taken to be    *)
(* collision free.                                                         *)
(***************************************************************************)
EXTENDS Integers, Sequences, FiniteSets, TLC

VARIABLES store, hist, now, last, pc, pass, input, merged, locations

vars == <<store, hist, now, last, pc, pass, input, merged, locations>>

\* ---- bounds of the model ------------------------------------------------
Horizon == 4
MaxNow == 48
MaxRows == 3
MaxSnowDays == 3
RaceDays == 2
MaxLead == 150
MaxHistory == 3
MaxPhrases == 2
MaxEntries == 2
MaxFetches == 3
MaxApproach == 192

\* ---- program constants --------------------------------------------------
min_snow_threshold == 500
days_back == 7

Max(a, b) == IF a >= b THEN a ELSE b
Min(a, b) == IF a <= b THEN a ELSE b

\* as_of_datetime.date()
DateOf(t) == 13 + t \div 24

\* x * 0.7 and x * 1.3 (exact on the multiples of 0.01 in the inputs use)
Mul07(x) == (x * 7) \div 10
Mul13(x) == (x * 13) \div 10

\* amt * 0.8 and amt * 1.2
Mul08(x) == (x * 8) \div 10
Mul12(x) == (x * 12) \div 10

\* round(x, 1): nearest tenth of an inch, ties to even
Round1(x) ==
  LET q == x \div 100
      r == x % 100
  IN  IF r < 50 THEN q * 100
      ELSE IF r > 50 THEN (q + 1) * 100
      ELSE IF q % 2 = 0 THEN q * 100 ELSE (q + 1) * 100

\* ---- narrative text -------------------------------------------------------
\* A narrative (detailedForecast, lower-cased) is the list of its words and
\* numbers; a number is N(v) with v in thousandths, a word is W(w).  The
\* regular expressions of the extractors are read token by token: \s* may
\* match the blank between two tokens, and a keyword tested with "in" is
\* found when the narrative has that word.
W(w) == [w |-> w, v |-> 0]
N(v) == [w |-> "num", v |-> v]

NoAmounts == [found |-> FALSE, low |-> 0, high |-> 0]
Amounts(lo, hi) == [found |-> TRUE, low |-> lo, high |-> hi]

word_at(text, i, words) == i <= Len(text) /\ text[i].w \in words

has_word(text, words) == \E i \in 1 .. Len(text) : text[i].w \in words

has_phrase(text, w1, w2) ==
  \E i \in 1 .. Len(text) - 1 : text[i].w = w1 /\ text[i + 1].w = w2

\* the three patterns at position i; units is what the pattern accepts after
\* the number: (\d+(?:\.\d+)?)\s*(?:to|-)\s*(\d+(?:\.\d+)?)\s*unit,
\* (?:around|about|near)\s*(\d+(?:\.\d+)?)\s*unit, (\d+(?:\.\d+)?)\s*unit
range_at(text, i, units) ==
  /\ word_at(text, i, {"num"})
  /\ word_at(text, i + 1, {"to", "-"})
  /\ word_at(text, i + 2, {"num"})
  /\ word_at(text, i + 3, units)

hedge_at(text, i, units) ==
  /\ word_at(text, i, {"around", "about", "near"})
  /\ word_at(text, i + 1, {"num"})
  /\ word_at(text, i + 2, units)

single_at(text, i, units) ==
  /\ word_at(text, i, {"num"})
  /\ word_at(text, i + 1, units)

\* re.search: the leftmost position where the pattern matches, 0 for None
re_search(text, pattern, units) ==
  LET at(i) == IF pattern = "range" THEN range_at(text, i, units)
               ELSE IF pattern = "hedge" THEN hedge_at(text, i, units)
               ELSE single_at(text, i, units)
      hits == {i \in 1 .. Len(text) : at(i)}
  IN  IF hits = {} THEN 0 ELSE CHOOSE i \in hits : \A j \in hits : i <= j

extract_snow_amounts_from_text_bare_first(text) ==
  LET units == {"inch", "inches"}
      r == re_search(text, "range", units)
      h == re_search(text, "hedge", units)
      s == re_search(text, "single", units)
  IN  IF text = <<>> THEN NoAmounts
      ELSE IF r # 0 THEN Amounts(text[r].v, text[r + 2].v)
      ELSE IF h # 0 THEN Amounts(Mul08(text[h + 1].v), Mul12(text[h + 1].v))
      ELSE IF s # 0 THEN Amounts(Mul08(text[s].v), Mul12(text[s].v))
      ELSE IF has_word(text, {"snow"}) THEN Amounts(1000, 4000)
      ELSE IF has_phrase(text, "heavy", "snow") \/ has_phrase(text, "significant", "snow")
           THEN Amounts(6000, 12000)
      ELSE IF has_phrase(text, "moderate", "snow") THEN Amounts(3000, 6000)
      ELSE IF has_phrase(text, "light", "snow") \/ has_word(text, {"flurries"})
           THEN Amounts(500, 2000)
      ELSE NoAmounts

\* snow_events.extract_snow_amounts_from_text: 'inch' is the only unit
extract_snow_amounts_from_text(text) ==
  LET units == {"inch", "inches"}
      r == re_search(text, "range", units)
      h == re_search(text, "hedge", units)
      s == re_search(text, "single", units)
  IN  IF text = <<>> THEN NoAmounts
      ELSE IF r # 0 THEN Amounts(text[r].v, text[r + 2].v)
      ELSE IF h # 0 THEN Amounts(Mul08(text[h + 1].v), Mul12(text[h + 1].v))
      ELSE IF s # 0 THEN Amounts(Mul08(text[s].v), Mul12(text[s].v))
      ELSE IF has_phrase(text, "heavy", "snow") \/ has_phrase(text, "significant", "snow")
           THEN Amounts(6000, 12000)
      ELSE IF has_phrase(text, "moderate", "snow") THEN Amounts(3000, 6000)
      ELSE IF has_phrase(text, "light", "snow") \/ has_word(text, {"flurries"})
           THEN Amounts(500, 2000)
      ELSE IF has_word(text, {"snow"}) THEN Amounts(1000, 4000)
      ELSE NoAmounts

\* storm_analysis.extract_snow_amounts_from_text: 'inch' or the symbol ",
\* and no qualitative fallback
storm_analysis_extract_snow_amounts_from_text(text) ==
  LET units == {"inch", "inches", "quote"}
      r == re_search(text, "range", units)
      h == re_search(text, "hedge", units)
      s == re_search(text, "single", units)
  IN  IF text = <<>> THEN NoAmounts
      ELSE IF r # 0 THEN Amounts(text[r].v, text[r + 2].v)
      ELSE IF h # 0 THEN Amounts(text[h + 1].v - 1000, text[h + 1].v + 1000)
      ELSE IF s # 0 THEN Amounts(text[s].v, text[s].v)
      ELSE NoAmounts

\* lines 296 and 340-343: the periods that mention snow, each with its
\* amounts and its ice and wind flags
mentions_snow(text) == has_word(text, {"snow", "flurries", "wintry"})

read_period(text) ==
  extract_snow_amounts_from_text(text)
  @@ [ice |-> has_word(text, {"ice", "sleet"}) \/ has_phrase(text, "freezing", "rain"),
      wind |-> has_word(text, {"wind", "gusts", "blustery", "blowing"})]

RECURSIVE read_periods(_)
read_periods(texts) ==
  IF texts = <<>> THEN <<>>
  ELSE (IF mentions_snow(Head(texts)) THEN <<read_period(Head(texts))>> ELSE <<>>)
       \o read_periods(Tail(texts))

\* ---- forecast input -----------------------------------------------------
\* One calendar date of a forecast payload, after the two extractors have
\* read it: gp is the gridpoint total of the date (0: the date is no key of
\* gridpoint_snow, since only values > 0 create a key) and tx is the list
\* of the narrative periods of that date that mention snow, each with the
\* (low, high) that extract_snow_amounts_from_text returned for it
\* (found = FALSE: it returned (None, None)); ice and wind say whether the
\* narrative of the period has one of the ice words, one of the wind words.
NoAmount == [found |-> FALSE, low |-> 0, high |-> 0, ice |-> FALSE, wind |-> FALSE]
Amount(lo, hi) == [found |-> TRUE, low |-> lo, high |-> hi, ice |-> FALSE, wind |-> FALSE]

Dry == [gp |-> 0, tx |-> <<>>]
GpTrace == [gp |-> 200, tx |-> <<>>]
Gp2 == [gp |-> 2000, tx |-> <<>>]
Tx5to7 == [gp |-> 0, tx |-> <<Amount(5000, 7000)>>]
TxTrace == [gp |-> 0, tx |-> <<Amount(200, 400)>>]
TxNoAmt == [gp |-> 0, tx |-> <<NoAmount>>]
TxTwo == [gp |-> 0, tx |-> <<Amount(1000, 4000), Amount(2400, 3600)>>]
GpTx == [gp |-> 2000, tx |-> <<Amount(6000, 10000)>>]
GpTraceTxNoAmt == [gp |-> 200, tx |-> <<NoAmount>>]

\* days read from narratives by the extractor of the detection core
SnowLikely3to5 ==
  <<W("snow"), W("likely"), N(3000), W("to"), N(5000), W("inches")>>
SnowAndSleet == <<W("snow"), W("and"), W("sleet")>>
WintryMixGusts == <<W("wintry"), W("mix"), W("gusts")>>

Gp3 == [gp |-> 3000, tx |-> <<>>]
Tx3to5 == [gp |-> 0, tx |-> read_periods(<<SnowLikely3to5>>)]
TxIce == [gp |-> 0, tx |-> read_periods(<<SnowAndSleet>>)]
GpWind == [gp |-> 2000, tx |-> read_periods(<<WintryMixGusts>>)]

ScenarioKinds == {Gp2, Gp3, Tx3to5, Tx5to7, TxIce, GpWind}

\* a trace in the gridpoint series with a narrative "light snow" for the
\* same date: total 0.2, low 0.5, high 2.0
GpTraceLightSnow == [gp |-> 200, tx |-> read_periods(<<<<W("light"), W("snow")>>>>)]

EdgeKinds == {GpTrace, GpTraceLightSnow, TxTrace, Gp2}

PureKinds == {GpTrace, Gp2, Tx5to7, TxTrace, TxTwo, GpTx, GpTraceTxNoAmt}

\* forecasts as functions of the offset from the as-of date, with at most
\* MaxSnowDays dates that carry any signal
ForecastsOver(offsets, kinds) ==
  {f \in [offsets -> kinds \cup {Dry}] :
      Cardinality({o \in offsets : f[o] # Dry}) <= MaxSnowDays}

\* the forecast over 0 .. Horizon that snows on the offsets of days only
Snow(days) == [o \in 0 .. Horizon |-> IF o \in DOMAIN days THEN days[o] ELSE Dry]

\* one detection pass on an empty store: every kind of day, one past date
PureForecasts == ForecastsOver((0 - 1) .. Horizon, PureKinds)

\* one detection pass on an empty store: gridpoint days, narrative days and
\* days with ice and wind words
ScenarioForecasts == ForecastsOver(0 .. Horizon, ScenarioKinds)

\* one detection pass on an empty store: days below the threshold, with and
\* without a narrative amount, next to days above it
EdgeForecasts == ForecastsOver(0 .. Horizon, EdgeKinds)

\* repeated passes of location 1: every pattern of 2.0 in gridpoint days,
\* a 6.0 in storm four days out, the same storm a day later as 2.0 + 6.0 in
\* two and three days out, and two forecasts with a trace day
TrackForecasts ==
  ForecastsOver(0 .. Horizon, {Gp2})
  \cup {Snow(4 :> Tx5to7), Snow(2 :> Gp2 @@ 3 :> Tx5to7),
        Snow(0 :> GpTrace @@ 2 :> Gp2), Snow(1 :> GpTrace)}

\* location 2 is a second site with one forecast, whose rows come to lie
\* between those of location 1
ForecastsFor(location_id) ==
  IF location_id = 1 THEN TrackForecasts ELSE {Snow(1 :> Gp2 @@ 2 :> Gp2)}

\* the payload whose date d carries f[d - as_of_date]
Payload(f, as_of) ==
  [d \in {DateOf(as_of) + o : o \in DOMAIN f} |-> f[d - DateOf(as_of)]]

\* ---- extractors ---------------------------------------------------------
\* extract_snow_from_forecast_text, the record of one date: the running
\* maxima over the periods of that date whose low and high are both truthy
RECURSIVE text_accumulate(_, _)
text_accumulate(periods, acc) ==
  IF periods = <<>> THEN acc
  ELSE LET p == Head(periods)
           nxt == IF p.found /\ p.low # 0 /\ p.high # 0
                  THEN [total |-> Max(acc.total, (p.low + p.high) \div 2),
                        low |-> Max(acc.low, p.low),
                        high |-> Max(acc.high, p.high)]
                  ELSE acc
       IN  text_accumulate(Tail(periods), nxt)

extract_snow_from_forecast_text(periods) ==
  text_accumulate(periods, [total |-> 0, low |-> 0, high |-> 0])

\* ---- daily signal merger (identify_snow_events, first half) --------------
\* snow_total, snow_low, snow_high of one date as lines 420-426 compute them
day_total(day) ==
  IF day.gp # 0 THEN day.gp
  ELSE IF day.tx # <<>> THEN extract_snow_from_forecast_text(day.tx).total
  ELSE 0

day_low(day) ==
  IF day.tx # <<>> THEN extract_snow_from_forecast_text(day.tx).low
  ELSE Mul07(day_total(day))

day_high(day) ==
  IF day.tx # <<>> THEN extract_snow_from_forecast_text(day.tx).high
  ELSE Mul13(day_total(day))

\* the retention test of line 428
day_retained(day) == day_total(day) >= min_snow_threshold \/ day_low(day) # 0

merged_day(day) ==
  [total |-> day_total(day),
   low |-> IF day_low(day) # 0 THEN day_low(day) ELSE Mul07(day_total(day)),
   high |-> IF day_high(day) # 0 THEN day_high(day) ELSE Mul13(day_total(day)),
   gridpoint |-> day.gp # 0,
   text |-> day.tx # <<>>,
   has_ice |-> \E k \in 1 .. Len(day.tx) : day.tx[k].ice,
   has_wind |-> \E k \in 1 .. Len(day.tx) : day.tx[k].wind,
   sources |-> (IF day.gp # 0 THEN {"gridpoint"} ELSE {})
               \cup (IF day.tx # <<>> THEN {"forecast_text"} ELSE {})]

\* daily_data: the retained dates that are keys of either extractor's
\* result and not before the as-of date
build_daily_data_all(fc, as_of) ==
  LET all_dates == {d \in DOMAIN fc : fc[d].gp # 0 \/ fc[d].tx # <<>>}
      kept == {d \in all_dates : day_retained(fc[d])}
  IN  [d \in kept |-> merged_day(fc[d])]

build_daily_data(fc, as_of) ==
  LET all_dates == {d \in DOMAIN fc : fc[d].gp # 0 \/ fc[d].tx # <<>>}
      kept == {d \in all_dates : d >= DateOf(as_of) /\ day_retained(fc[d])}
  IN  [d \in kept |-> merged_day(fc[d])]

\* ---- event segmenter (identify_snow_events, second half) -----------------
RECURSIVE sorted(_)
sorted(S) ==
  IF S = {} THEN <<>>
  ELSE LET m == CHOOSE x \in S : \A y \in S : x <= y
       IN  <<m>> \o sorted(S \ {m})

RECURSIVE group_runs_loose(_, _, _)
group_runs_loose(dates, current, runs) ==
  IF dates = <<>>
  THEN IF current = <<>> THEN runs ELSE Append(runs, current)
  ELSE LET d == Head(dates)
       IN  IF current = <<>> THEN group_runs_loose(Tail(dates), <<d>>, runs)
           ELSE IF d - current[Len(current)] <= 2
                THEN group_runs_loose(Tail(dates), Append(current, d), runs)
                ELSE group_runs_loose(Tail(dates), <<d>>, Append(runs, current))

\* the loop of lines 449-464 and the close of lines 467-472: the candidate
\* runs, in date order, each the list current_event_dates at its close
RECURSIVE group_runs(_, _, _)
group_runs(dates, current, runs) ==
  IF dates = <<>>
  THEN IF current = <<>> THEN runs ELSE Append(runs, current)
  ELSE LET d == Head(dates)
       IN  IF current = <<>> THEN group_runs(Tail(dates), <<d>>, runs)
           ELSE IF d - current[Len(current)] <= 1
                THEN group_runs(Tail(dates), Append(current, d), runs)
                ELSE group_runs(Tail(dates), <<d>>, Append(runs, current))

segment_days(daily) ==
  [k \in 1 .. Len(sorted(DOMAIN daily)) |-> <<sorted(DOMAIN daily)[k]>>]

segment(daily) == group_runs(sorted(DOMAIN daily), <<>>, <<>>)

RECURSIVE sum_field(_, _, _)
sum_field(event_dates, daily, fld) ==
  IF event_dates = <<>> THEN 0
  ELSE daily[Head(event_dates)][fld] + sum_field(Tail(event_dates), daily, fld)

get_confidence_for_lead_time_strict(hours) ==
  IF hours < 36 THEN "Very High"
  ELSE IF hours < 60 THEN "High"
  ELSE IF hours < 96 THEN "Moderate"
  ELSE IF hours < 144 THEN "Low"
  ELSE "Very Low"

get_confidence_for_lead_time(hours) ==
  IF hours <= 36 THEN "Very High"
  ELSE IF hours <= 60 THEN "High"
  ELSE IF hours <= 96 THEN "Moderate"
  ELSE IF hours <= 144 THEN "Low"
  ELSE "Very Low"

build_event_noon(event_dates, daily, as_of) ==
  LET start_date == event_dates[1]
      end_date == event_dates[Len(event_dates)]
      lead == Max(0, (start_date - 13) * 24 + 12 - as_of)
  IN  [start_date |-> start_date,
       end_date |-> end_date,
       snow_total_low |-> Round1(sum_field(event_dates, daily, "low")),
       snow_total_high |-> Round1(sum_field(event_dates, daily, "high")),
       snow_total_best |-> Round1(sum_field(event_dates, daily, "total")),
       has_ice |-> \E k \in 1 .. Len(event_dates) : daily[event_dates[k]].has_ice,
       has_wind |-> \E k \in 1 .. Len(event_dates) : daily[event_dates[k]].has_wind,
       sources |-> UNION {daily[event_dates[k]].sources : k \in 1 .. Len(event_dates)},
       days |-> Len(event_dates),
       snow_by_date |-> [k \in 1 .. Len(event_dates) |->
                           <<event_dates[k], daily[event_dates[k]].total>>],
       duration_hours |-> Len(event_dates) * 18,
       lead_time_hours |-> lead,
       confidence |-> get_confidence_for_lead_time(lead)]

build_event_bulk(event_dates, daily, as_of) ==
  LET start_date == event_dates[1]
      end_date == event_dates[Len(event_dates)]
      lead == Max(0, (start_date - 13) * 24 - as_of)
      total == sum_field(event_dates, daily, "total")
  IN  [start_date |-> start_date,
       end_date |-> end_date,
       snow_total_low |-> Round1(Mul07(total)),
       snow_total_high |-> Round1(Mul13(total)),
       snow_total_best |-> Round1(total),
       has_ice |-> \E k \in 1 .. Len(event_dates) : daily[event_dates[k]].has_ice,
       has_wind |-> \E k \in 1 .. Len(event_dates) : daily[event_dates[k]].has_wind,
       sources |-> UNION {daily[event_dates[k]].sources : k \in 1 .. Len(event_dates)},
       days |-> Len(event_dates),
       snow_by_date |-> [k \in 1 .. Len(event_dates) |->
                           <<event_dates[k], daily[event_dates[k]].total>>],
       duration_hours |-> Len(event_dates) * 18,
       lead_time_hours |-> lead,
       confidence |-> get_confidence_for_lead_time(lead)]

build_event_unclipped(event_dates, daily, as_of) ==
  LET lead == (event_dates[1] - 13) * 24 - as_of
  IN  [build_event_noon(event_dates, daily, as_of) EXCEPT
         !.lead_time_hours = lead,
         !.confidence = get_confidence_for_lead_time(lead)]

\* create_event_from_dates up to the identity lookup: the event's fields
\* other than event_id; snow_by_date is the dict of line 500 as the list of
\* its (date, total) items in insertion order
build_event(event_dates, daily, as_of) ==
  LET start_date == event_dates[1]
      end_date == event_dates[Len(event_dates)]
      lead == Max(0, (start_date - 13) * 24 - as_of)
  IN  [start_date |-> start_date,
       end_date |-> end_date,
       snow_total_low |-> Round1(sum_field(event_dates, daily, "low")),
       snow_total_high |-> Round1(sum_field(event_dates, daily, "high")),
       snow_total_best |-> Round1(sum_field(event_dates, daily, "total")),
       has_ice |-> \E k \in 1 .. Len(event_dates) : daily[event_dates[k]].has_ice,
       has_wind |-> \E k \in 1 .. Len(event_dates) : daily[event_dates[k]].has_wind,
       sources |-> UNION {daily[event_dates[k]].sources : k \in 1 .. Len(event_dates)},
       days |-> Len(event_dates),
       snow_by_date |-> [k \in 1 .. Len(event_dates) |->
                           <<event_dates[k], daily[event_dates[k]].total>>],
       duration_hours |-> Len(event_dates) * 18,
       lead_time_hours |-> lead,
       confidence |-> get_confidence_for_lead_time(lead)]

event_candidate_unfiltered(event_dates, daily, as_of) ==
  <<build_event(event_dates, daily, as_of)>>

\* the empty list stands for the None of lines 484-485 and 496-497
event_candidate(event_dates, daily, as_of) ==
  IF event_dates = <<>> THEN <<>>
  ELSE IF sum_field(event_dates, daily, "total") < 500
          /\ sum_field(event_dates, daily, "high") < 1000
       THEN <<>>
       ELSE <<build_event(event_dates, daily, as_of)>>

\* ---- event identity resolver --------------------------------------------
generate_event_id(start_date, end_date, location_id) ==
  <<location_id, start_date, end_date>>

overlap_days_short(start_date, end_date, existing_start, existing_end) ==
  Min(end_date, existing_end) - Max(start_date, existing_start)

\* lines 134-136
overlap_days(start_date, end_date, existing_start, existing_end) ==
  Min(end_date, existing_end) - Max(start_date, existing_start) + 1

\* The SELECT DISTINCT of lines 118-123 as SQLite runs it: of the rows of
\* the location with detected_at >= cutoff, the first in insertion order of
\* every distinct (event_id, start_date, end_date); i comes before j in the
\* result when its detected_at is later, insertion order breaking ties.
recent_rows(location_id, rows, clock) ==
  LET cutoff == clock - days_back * 24
      inwin == {i \in 1 .. Len(rows) :
                  rows[i].location_id = location_id /\ rows[i].detected_at >= cutoff}
  IN  {i \in inwin :
         \A j \in inwin :
            j < i => \/ rows[j].event_id # rows[i].event_id
                     \/ rows[j].start_date # rows[i].start_date
                     \/ rows[j].end_date # rows[i].end_date}

result_before(rows, i, j) ==
  \/ rows[i].detected_at > rows[j].detected_at
  \/ rows[i].detected_at = rows[j].detected_at /\ i < j

find_matching_event_id_stale(location_id, start_date, end_date, rows, clock) ==
  LET cutoff == clock - days_back * 24
      hits == {i \in 1 .. Len(rows) :
                 /\ rows[i].location_id = location_id
                 /\ rows[i].detected_at < cutoff
                 /\ overlap_days(start_date, end_date,
                                 rows[i].start_date, rows[i].end_date) >= 1}
  IN  IF hits = {} THEN <<>>
      ELSE <<rows[CHOOSE i \in hits :
                     \A j \in hits \ {i} : result_before(rows, i, j)].event_id>>

find_matching_event_id_any(location_id, start_date, end_date, rows, clock) ==
  LET hits == recent_rows(location_id, rows, clock)
  IN  IF hits = {} THEN <<>>
      ELSE <<rows[CHOOSE i \in hits :
                     \A j \in hits \ {i} : result_before(rows, i, j)].event_id>>

\* the empty list stands for None, a one-element list for the event_id of
\* the first row of the result that overlaps the candidate
find_matching_event_id(location_id, start_date, end_date, rows, clock) ==
  LET hits == {i \in recent_rows(location_id, rows, clock) :
                 overlap_days(start_date, end_date,
                              rows[i].start_date, rows[i].end_date) >= 1}
  IN  IF hits = {} THEN <<>>
      ELSE <<rows[CHOOSE i \in hits :
                     \A j \in hits \ {i} : result_before(rows, i, j)].event_id>>

resolve_event_id_fresh(cand, location_id, rows, clock) ==
  [cand EXCEPT !.event_id = generate_event_id(cand.start_date, cand.end_date, location_id),
               !.minted = TRUE]

\* lines 530-535; minted records which branch gave the event_id
resolve_event_id(cand, location_id, rows, clock) ==
  LET found == find_matching_event_id(location_id, cand.start_date, cand.end_date,
                                      rows, clock)
  IN  IF found # <<>>
      THEN [cand EXCEPT !.event_id = found[1], !.minted = FALSE]
      ELSE [cand EXCEPT !.event_id = generate_event_id(cand.start_date, cand.end_date,
                                                       location_id),
                        !.minted = TRUE]

\* the lookup of lines 111-125 on a database that answers (db_ok) or whose
\* connect or execute raises sqlite3.Error, which nothing up to the caller
\* catches: raised says that the exception left create_event_from_dates
resolve_event_id_db_guess(cand, location_id, rows, clock, db_ok) ==
  IF db_ok
  THEN [raised |-> FALSE, event |-> resolve_event_id(cand, location_id, rows, clock)]
  ELSE [raised |-> FALSE,
        event |-> [cand EXCEPT !.event_id = generate_event_id(cand.start_date,
                                                              cand.end_date, location_id),
                               !.minted = TRUE]]

resolve_event_id_db(cand, location_id, rows, clock, db_ok) ==
  IF db_ok
  THEN [raised |-> FALSE, event |-> resolve_event_id(cand, location_id, rows, clock)]
  ELSE [raised |-> TRUE, event |-> cand]

Unresolved(c) == c @@ [event_id |-> <<>>, minted |-> FALSE, stale |-> FALSE]

create_event_from_dates(event_dates, daily, as_of, location_id, rows, clock) ==
  LET c == event_candidate(event_dates, daily, as_of)
  IN  IF c = <<>> THEN <<>>
      ELSE <<resolve_event_id(Unresolved(c[1]), location_id, rows, clock)>>

\* the events of the runs in date order (lines 459-472); rows and clock are
\* the store and the wall clock that the lookups see
RECURSIVE events_of_runs(_, _, _, _, _, _)
events_of_runs(runs, daily, as_of, location_id, rows, clock) ==
  IF runs = <<>> THEN <<>>
  ELSE create_event_from_dates(Head(runs), daily, as_of, location_id, rows, clock)
       \o events_of_runs(Tail(runs), daily, as_of, location_id, rows, clock)

identify_snow_events(fc, as_of, location_id, rows, clock) ==
  LET daily == build_daily_data(fc, as_of)
  IN  events_of_runs(segment(daily), daily, as_of, location_id, rows, clock)

\* identify_snow_events when the query of the fail_at-th lookup of the pass
\* fails (0: none does): [raised, events], events being what the caller gets
RECURSIVE events_of_runs_db(_, _, _, _, _, _, _)
events_of_runs_db(runs, daily, as_of, location_id, rows, clock, fail_at) ==
  IF runs = <<>> THEN [raised |-> FALSE, events |-> <<>>]
  ELSE LET c == event_candidate(Head(runs), daily, as_of)
           r == resolve_event_id_db(Unresolved(c[1]), location_id, rows, clock,
                                    fail_at # 1)
           rest == events_of_runs_db(Tail(runs), daily, as_of, location_id, rows, clock,
                                     IF c = <<>> \/ fail_at = 0 THEN fail_at
                                     ELSE fail_at - 1)
       IN  IF c = <<>> THEN rest
           ELSE IF r.raised \/ rest.raised THEN [raised |-> TRUE, events |-> <<>>]
           ELSE [raised |-> FALSE, events |-> <<r.event>> \o rest.events]

identify_snow_events_db(fc, as_of, location_id, rows, clock, fail_at) ==
  LET daily == build_daily_data(fc, as_of)
  IN  events_of_runs_db(segment(daily), daily, as_of, location_id, rows, clock, fail_at)

\* the number of identity lookups a pass on this forecast makes
lookups_of(fc, as_of) ==
  LET daily == build_daily_data(fc, as_of)
      runs == segment(daily)
  IN  Cardinality({k \in 1 .. Len(runs) : event_candidate(runs[k], daily, as_of) # <<>>})

\* ---- snapshot store -------------------------------------------------------
snapshot_row(location_id, event, as_of) ==
  [location_id |-> location_id,
   event_id |-> event.event_id,
   detected_at |-> as_of,
   start_date |-> event.start_date,
   end_date |-> event.end_date,
   snow_low |-> event.snow_total_low,
   snow_high |-> event.snow_total_high,
   snow_best |-> event.snow_total_best,
   confidence |-> event.confidence,
   lead_time_hours |-> event.lead_time_hours,
   has_ice |-> event.has_ice,
   has_wind |-> event.has_wind,
   sources |-> event.sources]

RECURSIVE without_events(_, _, _)
without_events(rows, location_id, ids) ==
  IF rows = <<>> THEN <<>>
  ELSE (IF Head(rows).location_id = location_id /\ Head(rows).event_id \in ids
        THEN <<>> ELSE <<Head(rows)>>)
       \o without_events(Tail(rows), location_id, ids)

save_detected_events_upsert(location_id, events, as_of, rows) ==
  without_events(rows, location_id, {events[k].event_id : k \in 1 .. Len(events)})
  \o [k \in 1 .. Len(events) |-> snapshot_row(location_id, events[k], as_of)]

save_detected_events(location_id, events, as_of, rows) ==
  rows \o [k \in 1 .. Len(events) |-> snapshot_row(location_id, events[k], as_of)]

\* rows of the history query in result order: detected_at ascending,
\* insertion order breaking ties
RECURSIVE ordered_rows(_, _)
ordered_rows(rows, idx) ==
  IF idx = {} THEN <<>>
  ELSE LET m == CHOOSE i \in idx :
                  \A j \in idx \ {i} :
                     \/ rows[i].detected_at < rows[j].detected_at
                     \/ rows[i].detected_at = rows[j].detected_at /\ i < j
       IN  <<rows[m]>> \o ordered_rows(rows, idx \ {m})

RECURSIVE reversed(_)
reversed(s) == IF s = <<>> THEN <<>> ELSE Append(reversed(Tail(s)), Head(s))

get_event_history_desc(location_id, event_id, rows, clock) ==
  reversed(ordered_rows(rows, {i \in 1 .. Len(rows) :
                     /\ rows[i].location_id = location_id
                     /\ rows[i].event_id = event_id
                     /\ rows[i].detected_at >= clock - days_back * 24}))

get_event_history_unordered(location_id, event_id, rows, clock) ==
  LET idx == {i \in 1 .. Len(rows) :
                /\ rows[i].location_id = location_id
                /\ rows[i].event_id = event_id
                /\ rows[i].detected_at >= clock - days_back * 24}
  IN  [k \in 1 .. Cardinality(idx) |->
         rows[CHOOSE i \in idx : Cardinality({j \in idx : j < i}) = k - 1]]

get_event_history(location_id, event_id, rows, clock) ==
  ordered_rows(rows, {i \in 1 .. Len(rows) :
                     /\ rows[i].location_id = location_id
                     /\ rows[i].event_id = event_id
                     /\ rows[i].detected_at >= clock - days_back * 24})

\* snow_best is a REAL holding a value rounded to one decimal, k tenths; the
\* binary double nearest to k / 10 differs from it by float_err(k), counted
\* in units of 2^-56 / 10.  With 2^s <= 1.6 k < 2^(s+1) the double is a
\* multiple of 2^(s-56) and k * 2^(56-s) leaves the remainder r modulo 10,
\* which rounding to nearest removes (r < 5) or fills up (r > 5); r = 5
\* cannot occur, k * 2^(56-s) being even.
RECURSIVE Pow2(_)
Pow2(n) == IF n = 0 THEN 1 ELSE 2 * Pow2(n - 1)

float_err(k) ==
  IF k = 0 THEN 0
  ELSE LET s == CHOOSE e \in 0 .. 12 : 10 * Pow2(e) <= 16 * k /\ 16 * k < 10 * Pow2(e + 1)
           p == <<2, 4, 8, 6>>[((56 - s + 3) % 4) + 1]
           r == ((k % 10) * p) % 10
       IN  (IF r < 5 THEN 0 - r ELSE 10 - r) * Pow2(s)

\* whether the double y - x is > 1.0, for x and y of k tenths each: the
\* exact difference of the two doubles rounds to a double above 1.0 exactly
\* when it exceeds 1 + 2^-53 (80 units)
float_diff_exceeds_one(x, y) ==
  LET kx == x \div 100
      ky == y \div 100
  IN  \/ ky - kx >= 11
      \/ ky - kx = 10 /\ float_err(ky) - float_err(kx) > 80

get_event_trend(history) ==
  IF Len(history) < 2
  THEN [direction |-> "insufficient_data"]
  ELSE LET first_amt == history[1].snow_best
           latest_amt == history[Len(history)].snow_best
           change == latest_amt - first_amt
       IN  [direction |-> IF float_diff_exceeds_one(first_amt, latest_amt) THEN "increasing"
                          ELSE IF float_diff_exceeds_one(latest_amt, first_amt)
                               THEN "decreasing"
                          ELSE "steady",
            change |-> change,
            num_detections |-> Len(history)]

\* ---- state ----------------------------------------------------------------
\* store   the detected_events table, in insertion order
\* hist    for every row of store, which branch of lines 532-535 gave its
\*         event_id and whether another pass of the location appended
\*         between this row's lookup and its insert
\* now     the wall clock
\* last    the latest serialized detection pass that returned events: its
\*         location, its as-of instant, the length of store when it
\*         started, the number of candidate runs and the events it returned
\*         (a pass that returns no event changes nothing: line 197);
\*         failed_lookup is 0, or k when the store query of the pass's k-th
\*         identity lookup failed
\* pc,pass the position and the locals of every concurrently running pass
\* input, merged   the arguments and the result of one call of
\*         identify_snow_events on an empty store
\* locations   the locations table: its rows (id, zip_code) and seq, the
\*         largest id the table has ever given out (AUTOINCREMENT)
Locations == {1, 2}
Procs == {1, 2}

NoPass ==
  [location_id |-> 0, as_of |-> 0, before |-> 0, nruns |-> 0, events |-> <<>>,
   failed_lookup |-> 0]
Idle == [location_id |-> 0, as_of |-> 0, runs |-> <<>>, daily |-> <<>>, events |-> <<>>]
NoInput == [fc |-> <<>>, as_of |-> 0]
NoLocations == [rows |-> {}, seq |-> 0]
NoResult == [done |-> FALSE, daily |-> <<>>, runs |-> <<>>, events |-> <<>>]

Init ==
  /\ store = <<>>
  /\ hist = <<>>
  /\ locations = NoLocations
  /\ now = 0
  /\ last = NoPass
  /\ pc = [p \in Procs |-> "idle"]
  /\ pass = [p \in Procs |-> Idle]
  /\ input = NoInput
  /\ merged = NoResult

\* datetime.now() is read anew by every pass: no two passes of a location
\* have the same as-of instant
FreshInstant(location_id) ==
  /\ \A i \in 1 .. Len(store) :
        store[i].location_id = location_id => store[i].detected_at # now
  /\ \A p \in Procs :
        pc[p] # "idle" /\ pass[p].location_id = location_id => pass[p].as_of # now

Tick ==
  /\ now + 24 <= MaxNow
  /\ now' = now + 24
  /\ UNCHANGED <<store, hist, last, pc, pass, input, merged, locations>>

\* One serialized detection pass of a caller (auto_fetch.main, the storm
\* dashboard's show): identify_snow_events on the latest forecast with
\* as_of = datetime.now(), then save_detected_events when events came back.
\* cap bounds the length of the store.
PassWithin(location_id, forecasts, cap) ==
  /\ \A p \in Procs : pc[p] = "idle"
  /\ FreshInstant(location_id)
  /\ Len(store) < cap
  /\ \E f \in forecasts :
        LET fc == Payload(f, now)
            events == identify_snow_events(fc, now, location_id, store, now)
        IN  /\ events # <<>>
            /\ Len(store) + Len(events) <= cap
            /\ store' = save_detected_events(location_id, events, now, store)
            /\ hist' = hist \o [k \in 1 .. Len(events) |->
                                  [minted |-> events[k].minted, raced |-> FALSE]]
            /\ last' = [location_id |-> location_id, as_of |-> now,
                        before |-> Len(store),
                        nruns |-> Len(segment(build_daily_data(fc, now))),
                        events |-> events,
                        failed_lookup |-> 0]
  /\ UNCHANGED <<now, pc, pass, input, merged, locations>>

PassOn(location_id, forecasts) == PassWithin(location_id, forecasts, MaxRows)

DetectionPass(location_id) == PassOn(location_id, ForecastsFor(location_id))

Next == Tick \/ \E l \in Locations : DetectionPass(l)

Spec == Init /\ [][Next]_vars

\* ---- one detection pass on an empty store, step by step ---------------------
PureAsOf == {0, 18}

PureInit ==
  /\ store = <<>>
  /\ hist = <<>>
  /\ locations = NoLocations
  /\ last = NoPass
  /\ pc = [p \in Procs |-> "idle"]
  /\ pass = [p \in Procs |-> Idle]
  /\ merged = NoResult
  /\ \E a \in PureAsOf, f \in PureForecasts :
        /\ input = [fc |-> Payload(f, a), as_of |-> a]
        /\ now = a

\* identify_snow_events(forecast_data, as_of, 1): daily_data, the candidate
\* runs and the returned events
Identify ==
  /\ ~merged.done
  /\ merged' = [done |-> TRUE,
                daily |-> build_daily_data(input.fc, input.as_of),
                runs |-> segment(build_daily_data(input.fc, input.as_of)),
                events |-> identify_snow_events(input.fc, input.as_of, 1, store, now)]
  /\ UNCHANGED <<store, hist, now, last, pc, pass, input, locations>>

\* if events: save_detected_events(1, events, as_of)
SaveIdentified ==
  /\ merged.done
  /\ merged.events # <<>>
  /\ store = <<>>
  /\ store' = save_detected_events(1, merged.events, input.as_of, store)
  /\ hist' = [k \in 1 .. Len(merged.events) |->
                [minted |-> merged.events[k].minted, raced |-> FALSE]]
  /\ UNCHANGED <<now, last, pc, pass, input, merged, locations>>

PureNext == Identify \/ SaveIdentified

PureSpec == PureInit /\ [][PureNext]_vars

\* the same pass on the forecasts of ScenarioForecasts
ScenarioInit ==
  /\ store = <<>>
  /\ hist = <<>>
  /\ locations = NoLocations
  /\ last = NoPass
  /\ pc = [p \in Procs |-> "idle"]
  /\ pass = [p \in Procs |-> Idle]
  /\ merged = NoResult
  /\ \E a \in PureAsOf, f \in ScenarioForecasts :
        /\ input = [fc |-> Payload(f, a), as_of |-> a]
        /\ now = a

ScenarioSpec == ScenarioInit /\ [][PureNext]_vars

\* the same pass on the forecasts of EdgeForecasts
EdgeInit ==
  /\ store = <<>>
  /\ hist = <<>>
  /\ locations = NoLocations
  /\ last = NoPass
  /\ pc = [p \in Procs |-> "idle"]
  /\ pass = [p \in Procs |-> Idle]
  /\ merged = NoResult
  /\ \E a \in PureAsOf, f \in EdgeForecasts :
        /\ input = [fc |-> Payload(f, a), as_of |-> a]
        /\ now = a

EdgeSpec == EdgeInit /\ [][PureNext]_vars

\* ---- concurrent detection passes ---------------------------------------------
\* Two callers (the scheduled auto_fetch and a dashboard session) run a pass
\* each with no lock between them.  A pass reads the clock and segments its
\* forecast (Begin), resolves the identity of its candidates one lookup at a
\* time against the store as it is then (Lookup), and appends its events
\* (Save).
RaceForecasts == {Snow(f) : f \in ForecastsOver(0 .. RaceDays, {Gp2})}

Begin(p, location_id) ==
  /\ pc[p] = "idle"
  /\ FreshInstant(location_id)
  /\ \E f \in RaceForecasts :
        LET daily == build_daily_data(Payload(f, now), now)
        IN  /\ segment(daily) # <<>>
            /\ pass' = [pass EXCEPT ![p] =
                          [location_id |-> location_id, as_of |-> now,
                           runs |-> segment(daily), daily |-> daily, events |-> <<>>]]
  /\ pc' = [pc EXCEPT ![p] = "lookup"]
  /\ UNCHANGED <<store, hist, now, last, input, merged, locations>>

\* create_event_from_dates for the next run of the pass
Lookup(p) ==
  /\ pc[p] = "lookup"
  /\ LET event == create_event_from_dates(Head(pass[p].runs), pass[p].daily,
                                          pass[p].as_of, pass[p].location_id,
                                          store, now)
         events == pass[p].events \o event
         rest == Tail(pass[p].runs)
     IN  /\ pass' = [pass EXCEPT ![p].runs = rest, ![p].events = events]
         /\ pc' = [pc EXCEPT ![p] = IF rest # <<>> THEN "lookup"
                                    ELSE IF events # <<>> THEN "save"
                                    ELSE "idle"]
  /\ UNCHANGED <<store, hist, now, last, input, merged, locations>>

\* save_detected_events; the events another pass of the location has already
\* resolved are from now on stale: the store changed after their lookup
Save(p) ==
  /\ pc[p] = "save"
  /\ Len(store) + Len(pass[p].events) <= MaxRows
  /\ store' = save_detected_events(pass[p].location_id, pass[p].events,
                                   pass[p].as_of, store)
  /\ hist' = hist \o [k \in 1 .. Len(pass[p].events) |->
                        [minted |-> pass[p].events[k].minted,
                         raced |-> pass[p].events[k].stale]]
  /\ pass' = [q \in Procs |->
                IF q = p THEN Idle
                ELSE IF pass[q].location_id = pass[p].location_id
                THEN [pass[q] EXCEPT !.events =
                        [k \in 1 .. Len(pass[q].events) |->
                           [pass[q].events[k] EXCEPT !.stale = TRUE]]]
                ELSE pass[q]]
  /\ pc' = [pc EXCEPT ![p] = "idle"]
  /\ UNCHANGED <<now, last, input, merged, locations>>

RaceNext ==
  \/ Tick
  \/ \E p \in Procs : Begin(p, 1)
  \/ \E p \in Procs : Lookup(p)
  \/ \E p \in Procs : Save(p)

RaceSpec == Init /\ [][RaceNext]_vars

\* ---- the confidence classifier on its own ------------------------------------
\* get_confidence_for_lead_time(hours) for one lead time of 0 .. MaxLead
ConfInit ==
  /\ store = <<>>
  /\ hist = <<>>
  /\ locations = NoLocations
  /\ now = 0
  /\ last = NoPass
  /\ pc = [p \in Procs |-> "idle"]
  /\ pass = [p \in Procs |-> Idle]
  /\ merged = NoResult
  /\ \E h \in 0 .. MaxLead : input = [hours |-> h]

Classify ==
  /\ ~merged.done
  /\ merged' = [done |-> TRUE,
                confidence |-> get_confidence_for_lead_time(input.hours)]
  /\ UNCHANGED <<store, hist, now, last, pc, pass, input, locations>>

ConfSpec == ConfInit /\ [][Classify]_vars

\* ---- the trend analyzer on its own --------------------------------------------
\* get_event_trend(history) for a history of up to MaxHistory snapshots, in
\* the order get_event_history returns them
TrendAmounts == {1200, 2200, 2900, 3000, 4000, 4900, 5000, 5100}

Histories(n) ==
  {[i \in 1 .. n |-> [detected_at |-> i - 1, snow_best |-> f[i]]] :
     f \in [1 .. n -> TrendAmounts]}

TrendInit ==
  /\ store = <<>>
  /\ hist = <<>>
  /\ locations = NoLocations
  /\ now = 0
  /\ last = NoPass
  /\ pc = [p \in Procs |-> "idle"]
  /\ pass = [p \in Procs |-> Idle]
  /\ merged = NoResult
  /\ \E n \in 0 .. MaxHistory : \E h \in Histories(n) : input = [history |-> h]

AnalyseTrend ==
  /\ ~merged.done
  /\ merged' = [done |-> TRUE, trend |-> get_event_trend(input.history)]
  /\ UNCHANGED <<store, hist, now, last, pc, pass, input, locations>>

TrendSpec == TrendInit /\ [][AnalyseTrend]_vars

\* ---- the text amount extractors on their own ---------------------------------
\* narratives put together from up to MaxPhrases phrases
Phrases ==
  {<<N(3000), W("to"), N(5000), W("inches")>>,
   <<N(3000), W("-"), N(5000), W("inch")>>,
   <<W("around"), N(8000), W("inches")>>,
   <<N(8000), W("inches")>>,
   <<N(3000), W("to"), N(5000), W("quote")>>,
   <<W("about"), N(2000), W("quote")>>,
   <<N(8000), W("quote")>>,
   <<W("snow")>>,
   <<W("heavy"), W("snow")>>,
   <<W("near")>>,
   <<N(6000)>>}

RECURSIVE Narratives(_)
Narratives(n) ==
  IF n = 0 THEN {<<>>}
  ELSE Narratives(n - 1) \cup {t \o ph : t \in Narratives(n - 1), ph \in Phrases}

TextInit ==
  /\ store = <<>>
  /\ hist = <<>>
  /\ locations = NoLocations
  /\ now = 0
  /\ last = NoPass
  /\ pc = [p \in Procs |-> "idle"]
  /\ pass = [p \in Procs |-> Idle]
  /\ merged = NoResult
  /\ \E t \in Narratives(MaxPhrases) : input = [text |-> t]

\* low, high = extract_snow_amounts_from_text(detailed) in the detection core
ExtractCore ==
  /\ ~merged.done
  /\ merged' = [done |-> TRUE, amounts |-> extract_snow_amounts_from_text(input.text)]
  /\ UNCHANGED <<store, hist, now, last, pc, pass, input, locations>>

\* text_low, text_high = extract_snow_amounts_from_text(all_text) in the
\* storm analysis
ExtractAnalysis ==
  /\ ~merged.done
  /\ merged' = [done |-> TRUE,
                amounts |-> storm_analysis_extract_snow_amounts_from_text(input.text)]
  /\ UNCHANGED <<store, hist, now, last, pc, pass, input, locations>>

TextNext == ExtractCore \/ ExtractAnalysis

TextSpec == TextInit /\ [][TextNext]_vars

\* the extractor of the detection core on narratives of qualitative words
Keywords ==
  {<<W("heavy"), W("snow")>>,
   <<W("significant"), W("snow")>>,
   <<W("moderate"), W("snow")>>,
   <<W("light"), W("snow")>>,
   <<W("flurries")>>,
   <<W("snow")>>,
   <<W("heavy")>>,
   <<W("rain")>>,
   <<N(3000), W("to"), N(5000), W("inches")>>,
   <<N(8000), W("quote")>>}

RECURSIVE KeywordNarratives(_)
KeywordNarratives(n) ==
  IF n = 0 THEN {<<>>}
  ELSE KeywordNarratives(n - 1)
       \cup {t \o ph : t \in KeywordNarratives(n - 1), ph \in Keywords}

KeywordInit ==
  /\ store = <<>>
  /\ hist = <<>>
  /\ locations = NoLocations
  /\ now = 0
  /\ last = NoPass
  /\ pc = [p \in Procs |-> "idle"]
  /\ pass = [p \in Procs |-> Idle]
  /\ merged = NoResult
  /\ \E t \in KeywordNarratives(MaxPhrases) : input = [text |-> t]

KeywordSpec == KeywordInit /\ [][ExtractCore]_vars

\* ---- the raw payload ----------------------------------------------------------
\* A timestamp of the payload (validTime, startTime): form says how it is
\* written, date is the calendar date it names.
\*   "bare"      2026-01-15T06:00:00
\*   "plus"      2026-01-15T06:00:00+00:00
\*   "minus"     2026-01-15T06:00:00-05:00
\*   "duration"  2026-01-15T06:00:00+00:00/PT6H
\*   "missing"   the key is absent, or null, or the empty string
\*   "garbage"   a string that is no ISO datetime
\*   "number"    a JSON number other than 0
Stamp(form, d) == [form |-> form, date |-> d]

\* parse_nws_datetime: the date of the datetime it returns (ok), None
\* (neither), or the TypeError of "'/' in time_str" on a number, which its
\* except clause does not catch (raised)
parse_nws_datetime(time_str) ==
  IF time_str.form = "missing" THEN [raised |-> FALSE, ok |-> FALSE, date |-> 0]
  ELSE IF time_str.form = "number" THEN [raised |-> TRUE, ok |-> FALSE, date |-> 0]
  ELSE IF time_str.form = "garbage" THEN [raised |-> FALSE, ok |-> FALSE, date |-> 0]
  ELSE [raised |-> FALSE, ok |-> TRUE, date |-> time_str.date]

\* date.weekday(), Monday = 0; Jan 13 2026 is a Tuesday
weekday(d) == (d - 12) % 7

\* extract_date_from_period_name; name.kind is "today" (today, tonight, this
\* afternoon, this morning), "weekday" (a day name, wd its number), "other"
\* or "null" (JSON null, on which .lower() raises AttributeError)
extract_date_from_period_name(name, as_of_date) ==
  IF name.kind = "null" THEN [raised |-> TRUE, ok |-> FALSE, date |-> 0]
  ELSE IF name.kind = "today" THEN [raised |-> FALSE, ok |-> TRUE, date |-> as_of_date]
  ELSE IF name.kind = "weekday"
  THEN LET days_ahead == name.wd - weekday(as_of_date)
       IN  [raised |-> FALSE, ok |-> TRUE,
            date |-> as_of_date + (IF days_ahead <= 0 THEN days_ahead + 7 ELSE days_ahead)]
  ELSE [raised |-> FALSE, ok |-> FALSE, date |-> 0]

\* value / 25.4, the value in tenths of a millimetre
inches_of(value) == (value * 1000) \div 254

add_at(acc, d, x) ==
  IF d \in DOMAIN acc THEN [acc EXCEPT ![d] = @ + x] ELSE acc @@ (d :> x)

append_at(acc, d, x) ==
  IF d \in DOMAIN acc THEN [acc EXCEPT ![d] = Append(@, x)] ELSE acc @@ (d :> <<x>>)

\* An entry of snowfallAmount.values: dict says whether it is a JSON object;
\* value.type is "number" (mm10 tenths of a millimetre), "null",
\* "string" or "huge" (an integer too large for a float).
\* The loop of lines 236-270 inside the try of lines 231-273: state is
\* snow_by_date so far.  The result is [raised, by_date]: an AttributeError
\* or TypeError ends the loop with what was gathered (line 272), an
\* OverflowError leaves the function.
RECURSIVE gridpoint_loop(_, _)
gridpoint_loop(values, acc) ==
  IF values = <<>> THEN [raised |-> FALSE, by_date |-> acc]
  ELSE LET entry == Head(values)
           dt == parse_nws_datetime(entry.validTime)
       IN  IF ~entry.dict THEN [raised |-> FALSE, by_date |-> acc]
           ELSE IF entry.value.type = "null" THEN gridpoint_loop(Tail(values), acc)
           ELSE IF entry.value.type = "string" THEN [raised |-> FALSE, by_date |-> acc]
           ELSE IF entry.value.type = "number" /\ entry.value.mm10 <= 0
                THEN gridpoint_loop(Tail(values), acc)
           ELSE IF dt.raised THEN [raised |-> FALSE, by_date |-> acc]
           ELSE IF ~dt.ok THEN gridpoint_loop(Tail(values), acc)
           ELSE IF entry.value.type = "huge" THEN [raised |-> TRUE, by_date |-> acc]
           ELSE gridpoint_loop(Tail(values),
                               add_at(acc, dt.date, inches_of(entry.value.mm10)))

extract_snow_from_gridpoint_by_date_keyed(values) ==
  LET out == gridpoint_loop(values, <<>>)
      seen == {values[i].validTime.date : i \in {j \in 1 .. Len(values) :
                 /\ values[j].dict
                 /\ values[j].value.type = "number"
                 /\ parse_nws_datetime(values[j].validTime).ok}}
  IN  [out EXCEPT !.by_date =
         [d \in DOMAIN out.by_date \cup seen |->
            IF d \in DOMAIN out.by_date THEN out.by_date[d] ELSE 0]]

extract_snow_from_gridpoint_by_date(values) == gridpoint_loop(values, <<>>)

\* A period of the forecast: detailed.type is "text" (words its narrative),
\* "missing" or "null".  The loop of lines 290-343 inside the try of lines
\* 287-346; the result maps a date to the periods read for it.
RECURSIVE period_loop(_, _, _)
period_loop(periods, as_of_date, acc) ==
  IF periods = <<>> THEN acc
  ELSE LET period == Head(periods)
           dt == parse_nws_datetime(period.startTime)
           named == extract_date_from_period_name(period.name, as_of_date)
       IN  IF ~period.dict THEN acc
           ELSE IF period.detailed.type = "null" THEN acc
           ELSE IF period.detailed.type = "missing"
                   \/ ~mentions_snow(period.detailed.words)
                THEN period_loop(Tail(periods), as_of_date, acc)
           ELSE IF dt.raised THEN acc
           ELSE IF dt.ok
                THEN period_loop(Tail(periods), as_of_date,
                                 append_at(acc, dt.date, read_period(period.detailed.words)))
           ELSE IF named.raised THEN acc
           ELSE IF ~named.ok THEN period_loop(Tail(periods), as_of_date, acc)
           ELSE period_loop(Tail(periods), as_of_date,
                            append_at(acc, named.date, read_period(period.detailed.words)))

periods_by_date(periods, as_of_date) == period_loop(periods, as_of_date, <<>>)

\* lines 404-412: the two extractions and the dates of either
payload_by_date(raw, as_of) ==
  LET gp == extract_snow_from_gridpoint_by_date(raw.gridpoint).by_date
      tx == periods_by_date(raw.periods, DateOf(as_of))
  IN  [d \in DOMAIN gp \cup DOMAIN tx |->
         [gp |-> IF d \in DOMAIN gp THEN gp[d] ELSE 0,
          tx |-> IF d \in DOMAIN tx THEN tx[d] ELSE <<>>]]

\* entries and periods of the payloads examined: well-formed ones for Jan 15
\* and Jan 16 (2.0 in each; "snow 3 to 5 inches") and malformed ones
GpEntry(t, v) == [dict |-> TRUE, validTime |-> t, value |-> v]
Mm(x) == [type |-> "number", mm10 |-> x]
NotANumber(type) == [type |-> type, mm10 |-> 0]

GpEntries ==
  {GpEntry(Stamp("duration", 15), Mm(508)),
   GpEntry(Stamp("minus", 16), Mm(508)),
   GpEntry(Stamp("missing", 0), Mm(508)),
   GpEntry(Stamp("garbage", 0), Mm(508)),
   GpEntry(Stamp("number", 0), Mm(508)),
   GpEntry(Stamp("bare", 15), NotANumber("null")),
   GpEntry(Stamp("bare", 15), NotANumber("string")),
   GpEntry(Stamp("bare", 15), NotANumber("huge")),
   [dict |-> FALSE, validTime |-> Stamp("missing", 0), value |-> NotANumber("null")]}

Named(kind, wd) == [kind |-> kind, wd |-> wd]
Narrative(words) == [type |-> "text", words |-> words]
NoNarrative(type) == [type |-> type, words |-> <<>>]
Period(name, t, detailed) ==
  [dict |-> TRUE, name |-> name, startTime |-> t, detailed |-> detailed]

Snow3to5 == <<W("snow"), N(3000), W("to"), N(5000), W("inches")>>

Periods ==
  {Period(Named("weekday", 4), Stamp("minus", 16), Narrative(Snow3to5)),
   Period(Named("weekday", 3), Stamp("minus", 15), NoNarrative("null")),
   Period(Named("weekday", 3), Stamp("minus", 15), NoNarrative("missing")),
   Period(Named("weekday", 3), Stamp("missing", 0), Narrative(Snow3to5)),
   Period(Named("other", 0), Stamp("garbage", 0), Narrative(Snow3to5)),
   Period(Named("null", 0), Stamp("missing", 0), Narrative(Snow3to5))}

RECURSIVE ListsOf(_, _)
ListsOf(S, n) ==
  IF n = 0 THEN {<<>>}
  ELSE ListsOf(S, n - 1) \cup {Append(l, x) : l \in ListsOf(S, n - 1), x \in S}

RawInit ==
  /\ store = <<>>
  /\ hist = <<>>
  /\ locations = NoLocations
  /\ now = 0
  /\ last = NoPass
  /\ pc = [p \in Procs |-> "idle"]
  /\ pass = [p \in Procs |-> Idle]
  /\ merged = NoResult
  /\ \E g \in ListsOf(GpEntries, MaxEntries), t \in ListsOf(Periods, MaxEntries) :
        input = [raw |-> [gridpoint |-> g, periods |-> t], as_of |-> 0]

\* identify_snow_events(forecast_data, as_of, 1) on the raw payload
IdentifyRaw ==
  /\ ~merged.done
  /\ LET raised == extract_snow_from_gridpoint_by_date(input.raw.gridpoint).raised
         fc == payload_by_date(input.raw, input.as_of)
     IN  merged' = [done |-> TRUE,
                    raised |-> raised,
                    fc |-> fc,
                    daily |-> build_daily_data(fc, input.as_of),
                    runs |-> segment(build_daily_data(fc, input.as_of)),
                    events |-> IF raised THEN <<>>
                               ELSE identify_snow_events(fc, input.as_of, 1, store, now)]
  /\ UNCHANGED <<store, hist, now, last, pc, pass, input, locations>>

RawNext == IdentifyRaw \/ SaveIdentified

RawSpec == RawInit /\ [][RawNext]_vars

\* ---- concurrent passes and a reader of the history ----------------------------
\* show_event_trend of the dashboard: get_event_history for an identity the
\* store holds, then get_event_trend on the rows it returned
ViewHistory ==
  /\ \E i \in 1 .. Len(store) :
        LET history == get_event_history(store[i].location_id, store[i].event_id,
                                         store, now)
        IN  merged' = [done |-> TRUE,
                       location_id |-> store[i].location_id,
                       event_id |-> store[i].event_id,
                       history |-> history,
                       trend |-> get_event_trend(history)]
  /\ UNCHANGED <<store, hist, now, last, pc, pass, input, locations>>

FrameNext == RaceNext \/ ViewHistory

FrameSpec == Init /\ [][FrameNext]_vars

\* ---- a detection pass run again at a later wall-clock time --------------------
\* identify_snow_events takes the as-of instant as an argument, and its
\* identity lookup reads the wall clock (line 115).  Run is a call with the
\* as-of instant of the moment; Rerun is the same call, same payload, as-of
\* instant, location and store contents, made when the clock has moved on.
WeekLater ==
  /\ now <= MaxNow
  /\ now' = now + days_back * 24
  /\ UNCHANGED <<store, hist, last, pc, pass, input, merged, locations>>

Run ==
  /\ input = NoInput
  /\ \E f \in RaceForecasts :
        /\ input' = [fc |-> Payload(f, now), as_of |-> now]
        /\ merged' = [done |-> FALSE,
                      rows |-> store,
                      events |-> identify_snow_events(Payload(f, now), now, 1, store, now),
                      again |-> <<>>]
  /\ UNCHANGED <<store, hist, now, last, pc, pass, locations>>

Rerun ==
  /\ input # NoInput
  /\ ~merged.done
  /\ store = merged.rows
  /\ merged' = [merged EXCEPT
                  !.done = TRUE,
                  !.again = identify_snow_events(input.fc, input.as_of, 1, store, now)]
  /\ UNCHANGED <<store, hist, now, last, pc, pass, input, locations>>

ReplayNext == Tick \/ WeekLater \/ PassOn(1, RaceForecasts) \/ Run \/ Rerun

ReplaySpec == Init /\ [][ReplayNext]_vars

\* ---- detection passes on a database that can fail --------------------------
\* A detection pass of location 1 during which the store query of the
\* fail_at-th lookup fails (0: every query is answered).  In auto_fetch.main
\* the exception leaves identify_snow_events inside the try of lines 192-203
\* and is logged; in the dashboard it ends show().  Either way
\* save_detected_events runs only after identify_snow_events returned events.
FaultyPass(location_id) ==
  /\ \A p \in Procs : pc[p] = "idle"
  /\ FreshInstant(location_id)
  /\ Len(store) < MaxRows
  /\ \E f \in RaceForecasts, fail_at \in 0 .. MaxSnowDays :
        LET fc == Payload(f, now)
            out == identify_snow_events_db(fc, now, location_id, store, now, fail_at)
            events == IF out.raised THEN <<>> ELSE out.events
        IN  /\ fail_at <= lookups_of(fc, now)
            /\ fail_at > 0 \/ events # <<>>
            /\ Len(store) + lookups_of(fc, now) <= MaxRows
            /\ store' = save_detected_events(location_id, events, now, store)
            /\ hist' = hist \o [k \in 1 .. Len(events) |->
                                  [minted |-> events[k].minted, raced |-> FALSE]]
            /\ last' = [location_id |-> location_id, as_of |-> now,
                        before |-> Len(store),
                        nruns |-> Len(segment(build_daily_data(fc, now))),
                        events |-> events,
                        failed_lookup |-> fail_at]
  /\ UNCHANGED <<now, pc, pass, input, merged, locations>>

FaultNext == Tick \/ FaultyPass(1)

FaultSpec == Init /\ [][FaultNext]_vars

\* ---- passes on a store that holds several storms -------------------------------
\* Serialized passes of location 1 on the forecasts of two storms two days
\* apart, of either storm alone, and of one storm over the days of both;
\* the store may hold one row more than MaxRows, so that a storm detected
\* twice and another detected once are followed by a fourth detection.
SeveralForecasts ==
  {Snow(2 :> Gp2 @@ 4 :> Gp2), Snow(1 :> Gp2 @@ 3 :> Gp2),
   Snow(1 :> Gp2), Snow(2 :> Gp2), Snow(3 :> Gp2), Snow(4 :> Gp2),
   Snow(0 :> Gp2 @@ 1 :> Gp2 @@ 2 :> Gp2), Snow(1 :> Gp2 @@ 2 :> Gp2 @@ 3 :> Gp2)}

SeveralSpec == Init /\ [][Tick \/ PassWithin(1, SeveralForecasts, MaxRows + 1)]_vars

\* ---- the gridpoint extractor on its own ------------------------------------------
\* series of up to MaxEntries + 1 entries: 2.0 in and 1.0 in on Jan 15, 2.0 in
\* on Jan 16, values of zero, below zero and null, timestamps missing and
\* unparseable, and a value that is no number
SeriesEntries ==
  {GpEntry(Stamp("duration", 15), Mm(508)),
   GpEntry(Stamp("plus", 15), Mm(254)),
   GpEntry(Stamp("minus", 16), Mm(508)),
   GpEntry(Stamp("bare", 16), Mm(0)),
   GpEntry(Stamp("duration", 17), Mm(0 - 254)),
   GpEntry(Stamp("bare", 17), NotANumber("null")),
   GpEntry(Stamp("missing", 0), Mm(508)),
   GpEntry(Stamp("garbage", 0), Mm(508)),
   GpEntry(Stamp("bare", 15), NotANumber("string"))}

SeriesInit ==
  /\ store = <<>>
  /\ hist = <<>>
  /\ locations = NoLocations
  /\ now = 0
  /\ last = NoPass
  /\ pc = [p \in Procs |-> "idle"]
  /\ pass = [p \in Procs |-> Idle]
  /\ merged = NoResult
  /\ \E g \in ListsOf(SeriesEntries, MaxEntries + 1) : input = [values |-> g]

\* gridpoint_snow = extract_snow_from_gridpoint_by_date(gridpoint, as_of)
ExtractGridpoint ==
  /\ ~merged.done
  /\ merged' = [done |-> TRUE]
                @@ extract_snow_from_gridpoint_by_date(input.values)
  /\ UNCHANGED <<store, hist, now, last, pc, pass, input, locations>>

SeriesSpec == SeriesInit /\ [][ExtractGridpoint]_vars

\* ---- the locations table and the pages that use it ------------------------------
Zips == {"02139", "10001"}

\* the id of the row of zip_code, 0 for None
get_location_by_zip(zip_code, table) ==
  IF \E r \in table.rows : r.zip_code = zip_code
  THEN (CHOOSE r \in table.rows : r.zip_code = zip_code).id
  ELSE 0

\* INSERT OR REPLACE on a table whose zip_code is UNIQUE and whose id is
\* INTEGER PRIMARY KEY AUTOINCREMENT: the row that holds the zip code is
\* deleted and a row with the next id is inserted; lastrowid is the new seq
add_location(zip_code, table) ==
  [rows |-> {r \in table.rows : r.zip_code # zip_code}
            \cup {[id |-> table.seq + 1, zip_code |-> zip_code]},
   seq |-> table.seq + 1]

\* "Fetch Latest Data" of the setup page for a zip code: add_location, and
\* the session keeps the zip code and the id returned; previous is the id
\* the zip code had before the call (0: it had none)
FetchLatestData(zip_code) ==
  /\ locations.seq < MaxFetches
  /\ locations' = add_location(zip_code, locations)
  /\ merged' = [done |-> TRUE,
                current_zip |-> zip_code,
                previous |-> get_location_by_zip(zip_code, locations),
                location_id |-> add_location(zip_code, locations).seq]
  /\ UNCHANGED <<store, hist, now, last, pc, pass, input>>

\* the storm dashboard of a session on a zip code: the location is looked up
\* by zip code and the detection pass runs under its id, on a forecast of
\* 2.0 in one day out or of 2.0 in today and two days out
Dashboard(zip_code) ==
  /\ get_location_by_zip(zip_code, locations) # 0
  /\ PassWithin(get_location_by_zip(zip_code, locations),
                {Snow(1 :> Gp2), Snow(0 :> Gp2 @@ 2 :> Gp2)}, MaxRows)

LocationNext ==
  \/ Tick
  \/ \E z \in Zips : FetchLatestData(z)
  \/ \E z \in Zips : Dashboard(z)

LocationSpec == Init /\ [][LocationNext]_vars

\* ---- a storm on a fixed date, approached pass by pass ----------------------
\* The forecast of every pass puts 2.0 in on Jan 20, or on Jan 19 and Jan 20;
\* the clock moves in half days from Jan 13 00:00 to MaxApproach hours later,
\* past the start of the storm. Dates before the as-of date are not in the
\* payload.
ApproachDates == {<<20>>, <<19, 20>>}

StormOn(dates, as_of) ==
  [o \in 0 .. (dates[Len(dates)] - DateOf(as_of)) |->
     IF \E k \in 1 .. Len(dates) : dates[k] = DateOf(as_of) + o THEN Gp2 ELSE Dry]

HalfDay ==
  /\ now + 12 <= MaxApproach
  /\ now' = now + 12
  /\ UNCHANGED <<store, hist, last, pc, pass, input, merged, locations>>

ApproachSpec ==
  Init /\ [][HalfDay \/ PassWithin(1, {StormOn(ds, now) : ds \in ApproachDates},
                                  MaxRows)]_vars

\* ---- vocabulary of the properties ------------------------------------------
\* the number of calendar days two inclusive date ranges have in common
SharedDays(s1, e1, s2, e2) == Cardinality({d \in s1 .. e1 : d \in s2 .. e2})

\* the rows the store held when the latest pass started, and those of them
\* that belong to its location and were detected within the lookback window
RowsBefore == 1 .. last.before
RecentBefore ==
  {i \in RowsBefore : /\ store[i].location_id = last.location_id
                      /\ store[i].detected_at >= last.as_of - 7 * 24}
Emitted == 1 .. Len(last.events)
Sharing(e, rows) ==
  {i \in rows : SharedDays(e.start_date, e.end_date,
                           store[i].start_date, store[i].end_date) >= 1}

\* the rows of the pass of the same location that came just before the latest
PreviousPass ==
  LET mine == {i \in RowsBefore : store[i].location_id = last.location_id}
  IN  {i \in mine : \A j \in mine : store[j].detected_at <= store[i].detected_at}

Shifted(e, r) ==
  LET ds == e.start_date - r.start_date
      de == e.end_date - r.end_date
  IN  /\ ds \in (0 - 2) .. 2
      /\ de \in (0 - 2) .. 2
      /\ ds # 0 \/ de # 0

\* ---- C1 -------------------------------------------------------------------
\* C1: identity stability under date drift.  Whenever the store holds, for
\* the pass's location and inside the lookback window, a row that shares at
\* least one day with an event the pass builds, that event carries the
\* event_id of such a stored row and none was minted for it.
C1_IdentityStableUnderDrift ==
  \A k \in Emitted :
     LET e == last.events[k]
         hits == Sharing(e, RecentBefore)
     IN  hits # {} => /\ ~e.minted
                      /\ \E i \in hits : e.event_id = store[i].event_id

\* a pass whose event took the identity of a stored row with other dates
C1_Witness ==
  \E k \in Emitted : \E i \in Sharing(last.events[k], RecentBefore) :
     /\ last.events[k].event_id = store[i].event_id
     /\ last.events[k].start_date = store[i].start_date + 1
     /\ last.events[k].end_date = store[i].end_date + 1
     /\ SharedDays(last.events[k].start_date, last.events[k].end_date,
                   store[i].start_date, store[i].end_date) = 1

C3_NonMatchMintsNewIdentity ==
  \A k \in Emitted :
     LET e == last.events[k]
         mine == {i \in RowsBefore : store[i].location_id = last.location_id}
     IN  /\ Sharing(e, mine) = {} =>
              /\ e.minted
              /\ e.event_id = <<last.location_id, e.start_date, e.end_date>>
              /\ \A i \in mine : store[i].event_id # e.event_id
         /\ (\E i \in mine : store[i].event_id = e.event_id) =>
              \E i \in Sharing(e, mine) : store[i].event_id = e.event_id

\* a pass that minted an identity although its location had rows stored
C3_Witness ==
  \E k \in Emitted :
     /\ last.events[k].minted
     /\ \E i \in RowsBefore : store[i].location_id = last.location_id
     /\ Sharing(last.events[k], RowsBefore) = {}

\* ---- C4 -------------------------------------------------------------------
\* C4: the tracked storm.  After a pass as of Jan 13 stored [Jan 17, Jan 17]
\* with best 6.0 and the next pass, as of Jan 14, emitted [Jan 16, Jan 17]
\* with best 8.0, the second row has the first's event_id, the history of
\* that identity is the two snapshots in that order, and its trend is
\* increasing with change +2.0.
C4_Fetches(i, j) ==
  /\ i \in RowsBefore
  /\ j \in (last.before + 1) .. Len(store)
  /\ store[i].location_id = store[j].location_id
  /\ store[i].detected_at = 0 /\ store[j].detected_at = 24
  /\ store[i].start_date = 17 /\ store[i].end_date = 17
  /\ store[i].snow_best = 6000
  /\ store[j].start_date = 16 /\ store[j].end_date = 17
  /\ store[j].snow_best = 8000

C4_TrackedStormTrend ==
  \A i, j \in 1 .. Len(store) :
     C4_Fetches(i, j) =>
       LET history == get_event_history(store[i].location_id, store[i].event_id,
                                        store, now)
       IN  /\ store[j].event_id = store[i].event_id
           /\ history = <<store[i], store[j]>>
           /\ get_event_trend(history).direction = "increasing"
           /\ get_event_trend(history).change = 2000

C4_Witness == \E i, j \in 1 .. Len(store) : C4_Fetches(i, j)

\* ---- C5 -------------------------------------------------------------------
\* two rows of one location, both inside the lookback window, whose ranges
\* share a day and which carry two different identities, each minted for it
DuplicateIdentities(i, j) ==
  /\ i < j
  /\ store[i].location_id = store[j].location_id
  /\ store[i].detected_at >= now - 7 * 24
  /\ store[j].detected_at >= now - 7 * 24
  /\ hist[i].minted /\ hist[j].minted
  /\ store[i].event_id # store[j].event_id
  /\ SharedDays(store[i].start_date, store[i].end_date,
                store[j].start_date, store[j].end_date) >= 1

\* C5: the lookup and the append of a pass are two steps.  Two identities
\* minted for overlapping ranges of one location come to lie in the store
\* together only when another pass of the location appended between the
\* lookup and the append of the later row; passes whose lookup-then-append
\* runs with no other pass in between never leave such a pair.
C5_DuplicatesOnlyFromARace ==
  \A i, j \in 1 .. Len(store) : DuplicateIdentities(i, j) => hist[j].raced

\* the duplicate is reachable when the passes interleave
C5_Witness ==
  \E i, j \in 1 .. Len(store) : DuplicateIdentities(i, j) /\ hist[j].raced

\* ---- C6 -------------------------------------------------------------------
\* C6 as stated: the events one pass emits, and so the rows it appends,
\* carry pairwise distinct event_ids.
C6_OneRowPerIdentityPerPass ==
  \A k1, k2 \in Emitted :
     k1 # k2 => last.events[k1].event_id # last.events[k2].event_id

\* ---- the documented retention rule -------------------------------------------
\* total >= threshold, or a low bound derived from the narrative of the date
Qualifies(day) ==
  \/ day_total(day) >= 500
  \/ day.tx # <<>> /\ extract_snow_from_forecast_text(day.tx).low > 0

HorizonDates == {d \in DOMAIN input.fc : d >= DateOf(input.as_of)}
Qualifying == {d \in HorizonDates : Qualifies(input.fc[d])}

SameRun(d1, d2) ==
  \E r \in 1 .. Len(merged.runs) :
     /\ \E k \in 1 .. Len(merged.runs[r]) : merged.runs[r][k] = d1
     /\ \E k \in 1 .. Len(merged.runs[r]) : merged.runs[r][k] = d2

\* ---- C7 -------------------------------------------------------------------
\* C7 as stated: two qualifying days with no qualifying day between them
\* are in the same candidate event iff they are at most one day apart, a
\* qualifying day being one with total >= threshold or a text-derived low.
C7_SegmentationGapLaw ==
  merged.done =>
    \A d1, d2 \in Qualifying :
       (d1 < d2 /\ ~(\E d \in Qualifying : d1 < d /\ d < d2))
       => (SameRun(d1, d2) <=> d2 - d1 <= 1)

\* ---- C8 -------------------------------------------------------------------
\* C8 as stated: a date of the horizon is retained in daily_data iff its
\* total is >= the threshold or a text-derived low bound exists for it.
C8_RetentionRule ==
  merged.done =>
    \A d \in HorizonDates : d \in DOMAIN merged.daily <=> Qualifies(input.fc[d])

\* ---- C9 -------------------------------------------------------------------
\* C9: noise filter.  No event a pass returns, and no row it appends, has
\* best < 0.5 together with high < 1.0, the fields taken as emitted (rounded
\* to one decimal).
C9_NoiseFilter ==
  /\ \A k \in 1 .. Len(merged.events) :
        ~(merged.events[k].snow_total_best < 500
          /\ merged.events[k].snow_total_high < 1000)
  /\ \A i \in 1 .. Len(store) :
        ~(store[i].snow_best < 500 /\ store[i].snow_high < 1000)

\* a pass that dropped a run as noise and stored the events of its other runs
C9_Witness ==
  /\ merged.done
  /\ store # <<>>
  /\ \E r \in 1 .. Len(merged.runs) :
        /\ sum_field(merged.runs[r], merged.daily, "total") < 500
        /\ sum_field(merged.runs[r], merged.daily, "high") < 1000

\* ---- C10 ------------------------------------------------------------------
\* C10 as stated: every merged per-day record with total >= 0 has
\* low <= total <= high, and every emitted event has
\* snow_total_low <= snow_total_best <= snow_total_high.
C10_RangeBracketsBest ==
  /\ \A d \in DOMAIN merged.daily :
        merged.daily[d].total >= 0 =>
          /\ merged.daily[d].low <= merged.daily[d].total
          /\ merged.daily[d].total <= merged.daily[d].high
  /\ \A k \in 1 .. Len(merged.events) :
        /\ merged.events[k].snow_total_low <= merged.events[k].snow_total_best
        /\ merged.events[k].snow_total_best <= merged.events[k].snow_total_high

\* ---- C11 ------------------------------------------------------------------
\* C11: the confidence of a non-negative lead time is exactly the table:
\* up to 36 hours Very High, 37..60 High, 61..96 Moderate, 97..144 Low,
\* above 144 Very Low, every boundary in the more confident tier.
C11_ConfidenceTable ==
  merged.done =>
    LET h == input.hours
        c == merged.confidence
    IN  /\ c \in {"Very High", "High", "Moderate", "Low", "Very Low"}
        /\ c = "Very High" <=> h \in 0 .. 36
        /\ c = "High" <=> h \in 37 .. 60
        /\ c = "Moderate" <=> h \in 61 .. 96
        /\ c = "Low" <=> h \in 97 .. 144
        /\ c = "Very Low" <=> h > 144

\* the boundary of 144 hours classified Low
C11_Witness ==
  /\ merged.done
  /\ input.hours = 144
  /\ merged.confidence = "Low"

\* ---- C12 ------------------------------------------------------------------
\* the narrative "Snow likely, 3 to 5 inches" for Jan 15, evaluated as of
\* Jan 13 00:00 on an empty store
C12_Scenario ==
  /\ merged.done
  /\ input.as_of = 0
  /\ input.fc = Payload(Snow(2 :> Tx3to5), 0)

C12_Event(lead) ==
  /\ Len(merged.events) = 1
  /\ merged.events[1].start_date = 15
  /\ merged.events[1].end_date = 15
  /\ merged.events[1].snow_total_low = 3000
  /\ merged.events[1].snow_total_high = 5000
  /\ merged.events[1].snow_total_best = 4000
  /\ merged.events[1].lead_time_hours = lead
  /\ merged.events[1].confidence = "High"

\* C12 as stated: the scenario yields exactly one event, Jan 15 to Jan 15,
\* low 3, high 5, best 4, lead_time_hours 60 and confidence High.
C12_LeadTimeOf60 == C12_Scenario => C12_Event(60)

\* C12 amended: the same event with lead_time_hours 48, and the lead time
\* of every event is max(0, whole hours from the as-of instant to start_date
\* at midnight).
C12_LeadTimeOf48 ==
  /\ C12_Scenario => C12_Event(48)
  /\ \A k \in 1 .. Len(merged.events) :
        LET hours == (merged.events[k].start_date - 13) * 24 - input.as_of
        IN  merged.events[k].lead_time_hours = IF hours > 0 THEN hours ELSE 0

C12_Witness == C12_Scenario /\ Len(merged.events) = 1

\* ---- C19 ------------------------------------------------------------------
\* C19: past dates never produce events.  No date before the as-of date is
\* kept by the merger, and every returned event has start_date >= the as-of
\* date, start_date <= end_date and lead_time_hours >= 0.
C19_NoPastDates ==
  merged.done =>
    /\ \A d \in DOMAIN merged.daily : d >= 13 + input.as_of \div 24
    /\ \A k \in 1 .. Len(merged.events) :
          /\ merged.events[k].start_date >= 13 + input.as_of \div 24
          /\ merged.events[k].start_date <= merged.events[k].end_date
          /\ merged.events[k].lead_time_hours >= 0

\* a payload with 2.0 in on the day before the as-of date and on the as-of
\* date: the pass returned an event that starts on the as-of date
C19_Witness ==
  /\ merged.done
  /\ input.fc[12 + input.as_of \div 24].gp = 2000
  /\ \E k \in 1 .. Len(merged.events) :
        merged.events[k].start_date = 13 + input.as_of \div 24

\* ---- C20 ------------------------------------------------------------------
\* the member days of a returned event and the per-day fields the claim sums
MemberDays(e) == {d \in DOMAIN merged.daily : e.start_date <= d /\ d <= e.end_date}

TextLow(day) == IF day.tx = <<>> THEN 0 ELSE extract_snow_from_forecast_text(day.tx).low
TextHigh(day) == IF day.tx = <<>> THEN 0 ELSE extract_snow_from_forecast_text(day.tx).high
TextTotal(day) == IF day.tx = <<>> THEN 0 ELSE extract_snow_from_forecast_text(day.tx).total
DayTotal(day) == IF day.gp > 0 THEN day.gp ELSE TextTotal(day)
DayLow(day) == IF TextLow(day) > 0 THEN TextLow(day) ELSE (DayTotal(day) * 7) \div 10
DayHigh(day) == IF TextHigh(day) > 0 THEN TextHigh(day) ELSE (DayTotal(day) * 13) \div 10

RECURSIVE SumOver(_, _)
SumOver(S, f) ==
  IF S = {} THEN 0
  ELSE LET d == CHOOSE x \in S : TRUE IN f[d] + SumOver(S \ {d}, f)

C13_TrendThreshold ==
  merged.done =>
    LET h == input.history
        change == h[Len(h)].snow_best - h[1].snow_best
    IN  IF Len(h) < 2 THEN merged.trend.direction = "insufficient_data"
        ELSE /\ merged.trend.change = change
             /\ merged.trend.direction = "increasing" <=> change > 1000
             /\ merged.trend.direction = "decreasing" <=> change < 0 - 1000
             /\ merged.trend.direction = "steady" <=> (change <= 1000 /\ change >= 0 - 1000)

\* ---- C14 ------------------------------------------------------------------
\* the numeric rules as documented, the symbol " standing for inch(es)
Units == {"inch", "inches", "quote"}

Least(S) == CHOOSE i \in S : \A j \in S : i <= j

RangesIn(t) ==
  {i \in 1 .. Len(t) - 3 :
     /\ t[i].w = "num" /\ t[i + 1].w \in {"to", "-"}
     /\ t[i + 2].w = "num" /\ t[i + 3].w \in Units}

HedgesIn(t) ==
  {i \in 1 .. Len(t) - 2 :
     /\ t[i].w \in {"around", "about", "near"}
     /\ t[i + 1].w = "num" /\ t[i + 2].w \in Units}

SinglesIn(t) == {i \in 1 .. Len(t) - 1 : t[i].w = "num" /\ t[i + 1].w \in Units}

\* C14 as stated: the first rule that matches decides.  A range "X to Y
\* inches" or "X-Y inches" gives (X, Y); otherwise a hedge "around/about/
\* near X inches" gives (X-1, X+1); otherwise a single "X inches" gives
\* (X, X); and " is accepted wherever inch(es) is.
C14_NumericRulesInOrder ==
  merged.done =>
    LET t == input.text
    IN  IF RangesIn(t) # {}
        THEN merged.amounts = [found |-> TRUE, low |-> t[Least(RangesIn(t))].v,
                               high |-> t[Least(RangesIn(t)) + 2].v]
        ELSE IF HedgesIn(t) # {}
        THEN merged.amounts = [found |-> TRUE,
                               low |-> t[Least(HedgesIn(t)) + 1].v - 1000,
                               high |-> t[Least(HedgesIn(t)) + 1].v + 1000]
        ELSE IF SinglesIn(t) # {}
        THEN merged.amounts = [found |-> TRUE, low |-> t[Least(SinglesIn(t))].v,
                               high |-> t[Least(SinglesIn(t))].v]
        ELSE TRUE

\* ---- C15 ------------------------------------------------------------------
\* the well-formed entries and periods of the payload
WellFormedValue(entry) ==
  /\ entry.dict
  /\ entry.validTime.form \in {"bare", "plus", "minus", "duration"}
  /\ entry.value.type = "number"

WellFormedPeriod(period) ==
  /\ period.dict
  /\ period.startTime.form \in {"bare", "plus", "minus", "duration"}
  /\ period.detailed.type = "text"
  /\ \E i \in 1 .. Len(period.detailed.words) :
        period.detailed.words[i].w \in {"snow", "flurries", "wintry"}

RECURSIVE InchesFor(_, _)
InchesFor(values, d) ==
  IF values = <<>> THEN 0
  ELSE (IF WellFormedValue(Head(values)) /\ Head(values).validTime.date = d
        THEN (Head(values).value.mm10 * 1000) \div 254 ELSE 0)
       + InchesFor(Tail(values), d)

\* C15 as stated: identify_snow_events never raises because of the payload,
\* and a malformed entry or period is skipped alone: every well-formed
\* gridpoint entry is in the total of its date and every well-formed period
\* that mentions snow is among the periods read for its date.
C15_MalformedEntrySkippedAlone ==
  merged.done =>
    /\ ~merged.raised
    /\ \A i \in 1 .. Len(input.raw.gridpoint) :
          LET entry == input.raw.gridpoint[i]
          IN  WellFormedValue(entry) =>
                /\ entry.validTime.date \in DOMAIN merged.fc
                /\ merged.fc[entry.validTime.date].gp
                     = InchesFor(input.raw.gridpoint, entry.validTime.date)
    /\ \A i \in 1 .. Len(input.raw.periods) :
          LET period == input.raw.periods[i]
          IN  WellFormedPeriod(period) =>
                /\ period.startTime.date \in DOMAIN merged.fc
                /\ Len(merged.fc[period.startTime.date].tx)
                     >= Cardinality({j \in 1 .. Len(input.raw.periods) :
                                       /\ WellFormedPeriod(input.raw.periods[j])
                                       /\ input.raw.periods[j].startTime.date
                                            = period.startTime.date})

\* ---- C16 ------------------------------------------------------------------
\* C16: when the store query of an identity lookup fails, the whole pass
\* fails: the caller gets no event (none with a minted fallback identity
\* either) and the pass appends no snapshot.
C16_FailedLookupAbortsPass ==
  last.failed_lookup > 0 =>
    /\ last.events = <<>>
    /\ Len(store) = last.before

\* a pass on a non-empty store whose first lookup was answered and whose
\* second lookup failed
C16_Witness ==
  /\ last.failed_lookup = 2
  /\ last.before >= 1
  /\ Len(store) = last.before

\* ---- C17 ------------------------------------------------------------------
\* the step in which pass p runs save_detected_events
Saves(p) == pc[p] = "save" /\ pc'[p] = "idle"

\* C17: the core is append-only on the snapshot store.  Every step leaves
\* the stored rows as they are; the steps of identify_snow_events and of
\* get_event_history leave the store unchanged; and save_detected_events
\* adds exactly one row per event of its input list, in order, with
\* detected_at the as-of instant of the pass.
C17_AppendOnlyStore ==
  [][/\ Len(store') >= Len(store)
     /\ SubSeq(store', 1, Len(store)) = store
     /\ (\A p \in Procs : ~Saves(p)) => store' = store
     /\ \A p \in Procs :
          Saves(p) =>
            /\ Len(store') = Len(store) + Len(pass[p].events)
            /\ \A k \in 1 .. Len(pass[p].events) :
                  LET row == store'[Len(store) + k]
                      event == pass[p].events[k]
                  IN  /\ row.location_id = pass[p].location_id
                      /\ row.detected_at = pass[p].as_of
                      /\ row.event_id = event.event_id
                      /\ row.start_date = event.start_date
                      /\ row.end_date = event.end_date
                      /\ row.snow_best = event.snow_total_best]_vars

\* a later pass appended a second snapshot of a stored identity, and the
\* history of that identity was read
C17_Witness ==
  /\ Len(store) >= 2
  /\ store[1].event_id = store[2].event_id
  /\ store[1].detected_at < store[2].detected_at
  /\ merged.done
  /\ merged.history = <<store[1], store[2]>>

\* ---- C18 ------------------------------------------------------------------
\* C18 as stated: for a fixed payload, as-of instant, location and store
\* contents identify_snow_events returns the same events with the same
\* event_ids whatever the wall-clock time of the call, the lookback window
\* being measured back from the as-of instant.
C18_SameResultAtAnyClock ==
  (input # NoInput /\ merged.done) =>
    /\ merged.again = merged.events
    /\ \A k \in 1 .. Len(merged.again) :
          LET e == merged.again[k]
              inWindow == {i \in 1 .. Len(merged.rows) :
                             /\ merged.rows[i].location_id = 1
                             /\ merged.rows[i].detected_at >= input.as_of - 7 * 24
                             /\ SharedDays(e.start_date, e.end_date,
                                           merged.rows[i].start_date,
                                           merged.rows[i].end_date) >= 1}
          IN  e.minted <=> inWindow = {}

\* ---- C21 ------------------------------------------------------------------
\* the qualifying days of the payload with total < 0.5 and a text-derived
\* high >= 1.0 that have no qualifying day on either side
IsolatedEdgeDays ==
  {d \in Qualifying : /\ DayTotal(input.fc[d]) < 500
                      /\ TextHigh(input.fc[d]) >= 1000
                      /\ d - 1 \notin Qualifying
                      /\ d + 1 \notin Qualifying}

SingleDayEventOn(d) ==
  \E k \in 1 .. Len(merged.events) :
     merged.events[k].start_date = d /\ merged.events[k].end_date = d

\* C21 as stated: an isolated single qualifying day with total < 0.5 and a
\* text-derived high >= 1.0 is not removed by the noise filter; the pass
\* returns a single-day event with start_date = end_date = that day.
C21_EdgeDaySurvivesAlone ==
  merged.done => \A d \in IsolatedEdgeDays : SingleDayEventOn(d)

\* ---- C22 ------------------------------------------------------------------
\* the stored rows a read of the history of (location_id, event_id) at the
\* wall clock of the read is to return
Wanted(location_id, event_id) ==
  {i \in 1 .. Len(store) : /\ store[i].location_id = location_id
                           /\ store[i].event_id = event_id
                           /\ store[i].detected_at >= now - 7 * 24}

\* C22: a read of the history returns exactly the rows of the requested
\* location_id and event_id in the window, each once, in ascending order of
\* detected_at wherever they lie in the store; so the first snapshot is an
\* earliest and the last a most recent detection of the identity, and the
\* change of the trend is the best of a most recent detection minus the best
\* of an earliest one.
C22_HistoryOfOneIdentityInOrder ==
  [][merged' # merged =>
       LET h == merged'.history
           want == Wanted(merged'.location_id, merged'.event_id)
       IN  /\ Len(h) = Cardinality(want)
           /\ \A k \in 1 .. Len(h) :
                 /\ h[k].location_id = merged'.location_id
                 /\ h[k].event_id = merged'.event_id
                 /\ Cardinality({j \in 1 .. Len(h) : h[j] = h[k]})
                      = Cardinality({i \in want : store[i] = h[k]})
           /\ \A k \in 1 .. Len(h) - 1 : h[k].detected_at <= h[k + 1].detected_at
           /\ \A i \in want :
                 /\ h[1].detected_at <= store[i].detected_at
                 /\ store[i].detected_at <= h[Len(h)].detected_at
           /\ Len(h) >= 2 =>
                 merged'.trend.change = h[Len(h)].snow_best - h[1].snow_best]_vars

\* a read of an identity whose later detection was appended first, with a row
\* of another identity between the two in the store
C22_Witness ==
  /\ merged.done
  /\ Len(store) = 3
  /\ store[1].event_id = merged.event_id
  /\ store[2].event_id # merged.event_id
  /\ store[3].event_id = merged.event_id
  /\ store[3].detected_at < store[1].detected_at
  /\ merged.history = <<store[3], store[1]>>

\* ---- C23 ------------------------------------------------------------------
\* C23 as stated: when the range of a candidate overlaps stored rows of
\* several identities of its location in the lookback window, the candidate
\* gets the identity of the most recently detected of the overlapping rows.
C23_MostRecentOverlapWins ==
  \A k \in Emitted :
     LET e == last.events[k]
         hits == Sharing(e, RecentBefore)
         newest == {i \in hits : \A j \in hits : store[j].detected_at <= store[i].detected_at}
     IN  Cardinality({store[i].event_id : i \in hits}) >= 2
         => \E i \in newest : e.event_id = store[i].event_id

\* ---- C24 ------------------------------------------------------------------
\* C24 as stated: the total of a merged day is the gridpoint total of the
\* date when there is one greater than 0, and otherwise the text-derived
\* total, the midpoint of the text-derived low and high of the date (0 when
\* the narrative gives no amount); a text amount never overrides a positive
\* gridpoint total.
C24_GridpointTotalElseTextMidpoint ==
  merged.done =>
    \A d \in DOMAIN merged.daily :
       merged.daily[d].total =
         IF input.fc[d].gp > 0 THEN input.fc[d].gp
         ELSE (TextLow(input.fc[d]) + TextHigh(input.fc[d])) \div 2

\* ---- C25 ------------------------------------------------------------------
\* a series of (timestamp, value in millimetres) pairs: every entry is an
\* object whose timestamp is a string or missing and whose value is a number
\* or missing
IsSeries(values) ==
  \A i \in 1 .. Len(values) :
     /\ values[i].dict
     /\ values[i].validTime.form # "number"
     /\ values[i].value.type \in {"number", "null"}

\* the entries that count for date d: the timestamp falls on d and the value
\* is present and > 0
Counted(values, d) ==
  {i \in 1 .. Len(values) :
     /\ values[i].validTime.form \in {"bare", "plus", "minus", "duration"}
     /\ values[i].validTime.date = d
     /\ values[i].value.type = "number"
     /\ values[i].value.mm10 > 0}

\* C25: on a series the gridpoint extractor returns, for each calendar date,
\* the sum of value / 25.4 over exactly the entries whose timestamp falls on
\* that date and whose value is present and > 0; an entry with a missing,
\* zero or negative value adds nothing and creates no key.
C25_GridpointSumPerDate ==
  (merged.done /\ IsSeries(input.values)) =>
    /\ ~merged.raised
    /\ \A d \in 13 .. 31 :
          LET ids == Counted(input.values, d)
          IN  /\ d \in DOMAIN merged.by_date <=> ids # {}
              /\ ids # {} =>
                   merged.by_date[d]
                     = SumOver(ids, [i \in ids |-> (input.values[i].value.mm10 * 1000) \div 254])
    /\ DOMAIN merged.by_date \subseteq 13 .. 31

\* 2.0 in and 1.0 in on Jan 15 with a zero entry for Jan 16 between them:
\* Jan 15 sums to 3.0 in and Jan 16 is no key
C25_Witness ==
  /\ merged.done
  /\ Len(input.values) = 3
  /\ input.values[2].value = Mm(0)
  /\ DOMAIN merged.by_date = {15}
  /\ merged.by_date[15] = 3000

\* ---- C26 ------------------------------------------------------------------
\* the narrative says w1 w2, says w
Says2(t, w1, w2) == \E i \in 1 .. Len(t) - 1 : t[i].w = w1 /\ t[i + 1].w = w2
Says(t, w) == \E i \in 1 .. Len(t) : t[i].w = w

\* C26: when no numeric amount pattern matches, the qualitative fallback
\* decides, first hit first: heavy snow or significant snow gives (6, 12),
\* moderate snow (3, 6), light snow or flurries (0.5, 2), bare snow (1, 4);
\* a narrative with no numeric pattern and none of the keywords gives
\* (None, None).
C26_QualitativeFallbackInOrder ==
  LET t == input.text
  IN  (merged.done /\ RangesIn(t) = {} /\ HedgesIn(t) = {} /\ SinglesIn(t) = {}) =>
        merged.amounts =
          IF Says2(t, "heavy", "snow") \/ Says2(t, "significant", "snow")
          THEN [found |-> TRUE, low |-> 6000, high |-> 12000]
          ELSE IF Says2(t, "moderate", "snow")
          THEN [found |-> TRUE, low |-> 3000, high |-> 6000]
          ELSE IF Says2(t, "light", "snow") \/ Says(t, "flurries")
          THEN [found |-> TRUE, low |-> 500, high |-> 2000]
          ELSE IF Says(t, "snow")
          THEN [found |-> TRUE, low |-> 1000, high |-> 4000]
          ELSE [found |-> FALSE, low |-> 0, high |-> 0]

\* "light snow ... heavy snow": the keyword of the higher priority decides
C26_Witness ==
  /\ merged.done
  /\ input.text = <<W("light"), W("snow"), W("heavy"), W("snow")>>
  /\ merged.amounts = Amounts(6000, 12000)

\* ---- C27 ------------------------------------------------------------------
\* C27 as stated: add_location for a zip code that is already stored returns
\* the id the zip code had before, so every detected_events row stays under
\* the id of a location that get_location_by_zip finds, after every repeated
\* "Fetch Latest Data".
C27_RefetchKeepsLocationId ==
  /\ (merged.done /\ merged.previous # 0) => merged.location_id = merged.previous
  /\ \A i \in 1 .. Len(store) :
        \E z \in Zips : get_location_by_zip(z, locations) = store[i].location_id


\* C28: the events returned by one identify_snow_events call are in ascending
\* date order and pairwise disjoint with a gap: every event ends no earlier
\* than it starts, and for consecutive returned events e1, e2,
\* e1.end_date + 1 day < e2.start_date
C28_EventsAscendingAndApart ==
  merged.done =>
    /\ \A k \in 1 .. Len(merged.events) :
          merged.events[k].start_date <= merged.events[k].end_date
    /\ \A k \in 1 .. Len(merged.events) - 1 :
          merged.events[k].end_date + 1 < merged.events[k + 1].start_date

\* a call that returned two events, the first of more than one day
C28_Witness ==
  /\ merged.done
  /\ Len(merged.events) >= 2
  /\ merged.events[1].start_date < merged.events[1].end_date


\* C29: every emitted event covers its date range without holes: snow_by_date
\* has exactly one key for each calendar date from start_date to end_date
\* inclusive, in date order, so its size is (end_date - start_date).days + 1,
\* and duration_hours is 18 times that size
C29_EventCoversItsRange ==
  merged.done =>
    \A k \in 1 .. Len(merged.events) :
      LET e == merged.events[k]
      IN  /\ Len(e.snow_by_date) = e.end_date - e.start_date + 1
          /\ \A i \in 1 .. Len(e.snow_by_date) :
                e.snow_by_date[i][1] = e.start_date + i - 1
          /\ e.duration_hours = 18 * Len(e.snow_by_date)

\* a call that returned an event of two days or more after another event
C29_Witness ==
  /\ merged.done
  /\ \E k \in 1 .. Len(merged.events) :
        /\ k > 1
        /\ merged.events[k].end_date - merged.events[k].start_date >= 1
        /\ merged.events[k].duration_hours >= 36


ConfidenceRank(c) ==
  CASE c = "Very Low" -> 1
    [] c = "Low" -> 2
    [] c = "Moderate" -> 3
    [] c = "High" -> 4
    [] c = "Very High" -> 5

\* C30: for an event with a fixed start_date detected by successive passes
\* with non-decreasing as-of instants, lead_time_hours is non-increasing and
\* never negative, and the confidence tier never moves to a less confident
\* tier from one pass to the next (Very Low -> Low -> Moderate -> High ->
\* Very High only)
C30_LeadShrinksConfidenceGrows ==
  /\ \A i \in 1 .. Len(store) : store[i].lead_time_hours >= 0
  /\ \A i, j \in 1 .. Len(store) :
        ( /\ i < j
          /\ store[i].location_id = store[j].location_id
          /\ store[i].start_date = store[j].start_date
          /\ store[i].detected_at <= store[j].detected_at )
        => /\ store[j].lead_time_hours <= store[i].lead_time_hours
           /\ ConfidenceRank(store[j].confidence) >= ConfidenceRank(store[i].confidence)

\* the storm of Jan 20 detected a week ahead at Very Low, again at a more
\* confident tier, and again after it began, with lead time 0
C30_Witness ==
  /\ Len(store) = 3
  /\ \A i \in 1 .. 3 : store[i].start_date = 20 /\ store[i].event_id = store[1].event_id
  /\ store[1].confidence = "Very Low"
  /\ ConfidenceRank(store[2].confidence) \in 2 .. 4
  /\ store[2].lead_time_hours < store[1].lead_time_hours
  /\ store[3].detected_at > 168
  /\ store[3].lead_time_hours = 0
====
